---- MODULE Spec2Model ----
(***************************************************************************)
(* Band alignment and vegetation-index pipeline of the repository:         *)
(*   src/src/band_aligner.py            BandAligner                        *)
(*   src/src/georeference_analysis.py   GeoInfo, SceneAnalyzer,            *)
(*                                      AlignmentChecker                   *)
(*   src/src/vegetation-ortho-aligned.py  process_aligned_ndvi             *)
(*   src/src/vegetation-ortho.py        NDVI script (assert, then write)   *)
(*   src/vegetation-ortho.py            NDVI script (clip, then write)     *)
(*                                                                         *)
(* Coordinates are integers.  In EPSG:4326 one unit is 5e-7 degree; in the *)
(* projected CRS one unit is one metre.  A raster file is a record holding *)
(* its profile (crs, origin, pixel size, width, height, dtype) and its     *)
(* sample matrix (a sequence of rows).  An index raster holds fractions    *)
(* <<n, d>> in lowest terms, d > 0, and <<0, 0>> for NaN.                  *)
(***************************************************************************)
EXTENDS Integers, Sequences, FiniteSets, TLC

\* ------------------------------------------------------------------ bounds
NumScenes == 2      \* scenes in the input directory are 1..NumScenes
MaxDim == 2         \* raster width and height range over 1..MaxDim
MaxOrigin == 1      \* raster origin coordinates range over 0..MaxOrigin
MaxRuns == 2        \* programs started in one behaviour

Scenes == 1..NumScenes
Bands == {"B4", "B5"}
WGS84 == "EPSG:4326"
UTM == "EPSG:32633"
CRSs == {WGS84, UTM}
PixelSizes == {1, 2}
SampleValues == {-1, 0, 1, 3}

NoFile == [exists |-> FALSE]
NaN == <<0, 0>>

\* ------------------------------------------------------------- arithmetic
Abs(x) == IF x < 0 THEN -x ELSE x

Max2(a, b) == IF a >= b THEN a ELSE b

RECURSIVE Gcd(_, _)
Gcd(a, b) == IF b = 0 THEN a ELSE Gcd(b, a % b)

\* the float quotient n / d (d # 0) as a fraction in lowest terms
Frac(n, d) ==
    LET g == Gcd(Abs(n), Abs(d))
        s == IF d < 0 THEN -1 ELSE 1
    IN  <<(s * n) \div g, (s * d) \div g>>

\* -1 <= v <= 1 (false of +-inf, which are <<+-1, 0>>)
InUnit(v) == -v[2] <= v[1] /\ v[1] <= v[2]

\* ------------------------------------------------------------ raster files
Checker(h, w, v1, v2) ==
    [r \in 1..h |-> [c \in 1..w |-> IF (r + c) % 2 = 0 THEN v1 ELSE v2]]

DTypeOf(v1, v2) == IF v1 < 0 \/ v2 < 0 THEN "int16" ELSE "uint16"

MkFile(ok, crs, ox, oy, px, w, h, v1, v2) ==
    [exists |-> TRUE, ok |-> ok, sound |-> TRUE, crs |-> crs, ox |-> ox, oy |-> oy,
     px |-> px, w |-> w, h |-> h, dtype |-> DTypeOf(v1, v2),
     data |-> Checker(h, w, v1, v2)]

\* src.profile: everything rasterio needs to create a like file
Profile(f) ==
    [crs |-> f.crs, ox |-> f.ox, oy |-> f.oy, px |-> f.px, w |-> f.w, h |-> f.h,
     dtype |-> f.dtype]

\* the pixel grid of a file: CRS, affine transform, width, height
Grid(f) == [crs |-> f.crs, ox |-> f.ox, oy |-> f.oy, px |-> f.px, w |-> f.w, h |-> f.h]

\* rasterio.open(path) succeeds
Readable(f) == f.exists /\ f.ok

\* src.read() and reproject(rasterio.band(src, 1), ...) succeed: the file
\* opens and its pixel data can be read
Loads(f) == Readable(f) /\ f.sound

\* ---------------------------------------------------- CRS and georeference
\* rasterio's CRS conversion to EPSG:4326, per axis: identity for EPSG:4326,
\* and for the projected CRS one metre is 18 units of 5e-7 degree from the
\* zone's false origin.
CrsScale(crs) == IF crs = WGS84 THEN 1 ELSE 18
CrsShiftX(crs) == IF crs = WGS84 THEN 0 ELSE 3
CrsShiftY(crs) == IF crs = WGS84 THEN 0 ELSE 7

\* src.bounds as <<left, bottom, right, top>>
RawBounds(f) == <<f.ox, f.oy - f.h * f.px, f.ox + f.w * f.px, f.oy>>

\* transform_bounds(src_crs, EPSG:4326, left, bottom, right, top)
TransformBounds(crs, b) ==
    <<CrsScale(crs) * b[1] + CrsShiftX(crs), CrsScale(crs) * b[2] + CrsShiftY(crs),
      CrsScale(crs) * b[3] + CrsShiftX(crs), CrsScale(crs) * b[4] + CrsShiftY(crs)>>

\* GeoInfo.get_info on a file that opens
GetInfo(f) ==
    [crs |-> f.crs,
     bounds_wgs84 |-> IF f.crs # WGS84 THEN TransformBounds(f.crs, RawBounds(f))
                      ELSE RawBounds(f),
     shape |-> <<f.h, f.w>>,
     pixel_size |-> <<f.px, f.px>>]

\* ------------------------------------------------------------- resampling
\* One axis of the bilinear kernel.  pos2 is twice the destination pixel
\* centre's coordinate along the axis in the destination CRS (growing with
\* the source pixel index), so2 twice the source origin.  Returns the source
\* position as num / den pixels from the source origin.
SrcPos(pos2, kd, zd, ks, zs, so2, spx) ==
    [num |-> kd * pos2 + 2 * (zd - zs) - ks * so2, den |-> 2 * ks * spx]

\* the neighbours (0-based index, weight) of a source position on an axis of
\* n pixels; empty when the position lies outside the source extent
Taps(p, n) ==
    IF p.num < 0 \/ p.num >= n * p.den THEN {}
    ELSE LET a == p.num - (p.den \div 2)
             i0 == a \div p.den
             t == a - i0 * p.den
         IN  {tp \in {<<i0, p.den - t>>, <<i0 + 1, t>>} :
                  tp[1] >= 0 /\ tp[1] <= n - 1 /\ tp[2] > 0}

\* the sum of the weights of a set of (row tap, column tap) pairs
RECURSIVE SumWeights(_)
SumWeights(S) ==
    IF S = {} THEN 0
    ELSE LET q == CHOOSE y \in S : TRUE
         IN  q[1][2] * q[2][2] + SumWeights(S \ {q})

\* the weighted sum of the samples the pairs name
RECURSIVE SumSamples(_, _)
SumSamples(S, data) ==
    IF S = {} THEN 0
    ELSE LET q == CHOOSE y \in S : TRUE
         IN  q[1][2] * q[2][2] * data[q[1][1] + 1][q[2][1] + 1] + SumSamples(S \ {q}, data)

\* reproject(source=src band 1, destination=zeros((ref.h, ref.w)),
\*           src_transform, src_crs, dst_transform, dst_crs, bilinear):
\* the value of destination pixel (r, c), 1-based, rounded to the integer dtype
ReprojectPixel(src, ref, r, c) ==
    LET kd == CrsScale(ref.crs)
        ks == CrsScale(src.crs)
        u == SrcPos(2 * ref.ox + (2 * c - 1) * ref.px, kd, CrsShiftX(ref.crs),
                    ks, CrsShiftX(src.crs), 2 * src.ox, src.px)
        \* rows grow southwards: measure along -y
        v == SrcPos(-(2 * ref.oy - (2 * r - 1) * ref.px), kd, -CrsShiftY(ref.crs),
                    ks, -CrsShiftY(src.crs), -(2 * src.oy), src.px)
        tx == Taps(u, src.w)
        ty == Taps(v, src.h)
        pairs == ty \X tx
        den == SumWeights(pairs)
        num == SumSamples(pairs, src.data)
    IN  IF pairs = {} THEN 0 ELSE (2 * num + den) \div (2 * den)

Reproject(src, ref) ==
    [r \in 1..ref.h |-> [c \in 1..ref.w |-> ReprojectPixel(src, ref, r, c)]]

\* ------------------------------------------------------- index arithmetic
Sign(n) == IF n > 0 THEN 1 ELSE IF n < 0 THEN -1 ELSE 0

\* float division: n / 0 is +-inf (<<+-1, 0>>) and 0 / 0 is NaN
Divide(n, d) == IF d = 0 THEN <<Sign(n), 0>> ELSE Frac(n, d)

\* numpy broadcasting of two 2-D shapes
Broadcastable(a, b) ==
    /\ (a.h = b.h \/ a.h = 1 \/ b.h = 1)
    /\ (a.w = b.w \/ a.w = 1 \/ b.w = 1)

\* element (r, c) of a.data broadcast to a larger shape
At(a, r, c) == a.data[IF a.h = 1 THEN 1 ELSE r][IF a.w = 1 THEN 1 ELSE c]

BroadcastH(a, b) == Max2(a.h, b.h)
BroadcastW(a, b) == Max2(a.w, b.w)

\* the index with the difference taken the other way round
NdviArraySwapped(nir, red) ==
    [r \in 1..BroadcastH(nir, red) |-> [c \in 1..BroadcastW(nir, red) |->
        Divide(At(red, r, c) - At(nir, r, c), At(nir, r, c) + At(red, r, c))]]

\* ndvi = (nir - red) / (nir + red), elementwise on the float arrays
NdviArray(nir, red) ==
    [r \in 1..BroadcastH(nir, red) |-> [c \in 1..BroadcastW(nir, red) |->
        Divide(At(nir, r, c) - At(red, r, c), At(nir, r, c) + At(red, r, c))]]

\* ndvi = np.where((nir + red) == 0, 0, ndvi)
WhereZero(nir, red, ndvi) ==
    [r \in DOMAIN ndvi |-> [c \in DOMAIN ndvi[r] |->
        IF At(nir, r, c) + At(red, r, c) = 0 THEN <<0, 1>> ELSE ndvi[r][c]]]

\* ndvi[(nir + red) == 0] = np.nan
MaskNaN(nir, red, ndvi) ==
    [r \in DOMAIN ndvi |-> [c \in DOMAIN ndvi[r] |->
        IF At(nir, r, c) + At(red, r, c) = 0 THEN NaN ELSE ndvi[r][c]]]

\* np.clip(ndvi, -1, 1): NaN stays NaN
ClipValue(v) ==
    IF v = NaN THEN NaN
    ELSE IF v[1] > v[2] THEN <<1, 1>>
    ELSE IF v[1] < -v[2] THEN <<-1, 1>>
    ELSE v

Clip(ndvi) == [r \in DOMAIN ndvi |-> [c \in DOMAIN ndvi[r] |-> ClipValue(ndvi[r][c])]]

\* the values of an array
Values(arr) == {arr[r][c] : r \in DOMAIN arr, c \in DOMAIN arr[1]}

\* assert -1 <= np.nanmin(ndvi) <= 1 and assert -1 <= np.nanmax(ndvi) <= 1:
\* nanmin and nanmax skip NaN and are NaN, which fails every comparison, when
\* nothing is left
RangeAsserts(ndvi) ==
    LET kept == Values(ndvi) \ {NaN}
    IN  kept # {} /\ \A v \in kept : InUnit(v)

\* dst.write(arr, 1) into a dataset of h rows and w columns: an array of
\* another shape is rescaled by GDAL to the dataset's, nearest neighbour
ScaledWrite(arr, h, w) ==
    LET ah == Len(arr)
        aw == Len(arr[1])
    IN  IF ah = h /\ aw = w THEN arr
        ELSE [r \in 1..h |-> [c \in 1..w |->
                 arr[(((2 * r - 1) * ah) \div (2 * h)) + 1]
                    [(((2 * c - 1) * aw) \div (2 * w)) + 1]]]

\* ------------------------------------------------------------ file handles
\* the trace of an operation: whether it raised, and the handles it opened
\* and closed, in order
Done == [raised |-> FALSE, events |-> <<>>]
Raise == [raised |-> TRUE, events |-> <<>>]

\* a file of a directory: <dir>/<scene>_<name>
PathOf(dir, scene, name) == [dir |-> dir, scene |-> scene, name |-> name]

Ev(op, mode, path) == [op |-> op, mode |-> mode, path |-> path]

\* two statements in a row: the second runs when the first did not raise
Then(a, b) ==
    IF a.raised THEN a
    ELSE [raised |-> b.raised, events |-> a.events \o b.events]

\* a handle opened and closed by hand: an exception in between skips the close
OpenedThenClosed(mode, path, body) ==
    [raised |-> body.raised,
     events |-> <<Ev("open", mode, path)>> \o body.events \o
                (IF body.raised THEN <<>> ELSE <<Ev("close", mode, path)>>)]

\* with rasterio.open(...) as f: body -- the handle is closed when the block
\* is left, by its end or by an exception
Scoped(mode, path, body) ==
    [raised |-> body.raised,
     events |-> <<Ev("open", mode, path)>> \o body.events \o <<Ev("close", mode, path)>>]

\* with rasterio.open(path) as src: body -- the open itself raises for a file
\* that is missing or does not open
OpenRead(path, f, body) == IF ~Readable(f) THEN Raise ELSE Scoped("r", path, body)

\* with rasterio.open(path, 'w', ...) as dst: body
OpenWrite(path, body) == Scoped("w", path, body)

\* src.read(...) or reproject(rasterio.band(src, 1), ...) inside the block
ReadPixels(f) == IF f.sound THEN Done ELSE Raise

\* the handles an operation leaves open
RECURSIVE OpenAfter(_)
OpenAfter(events) ==
    IF events = <<>> THEN 0
    ELSE (IF Head(events).op = "open" THEN 1 ELSE -1) + OpenAfter(Tail(events))

\* GeoInfo.get_info: one with block around the reading of the metadata
GetInfoIO(path, f) == OpenRead(path, f, Done)

\* align_band_to_reference, of BandAligner and of the script: the reference
\* block holds the source block, which holds reproject and the output block
AlignBandToReferenceIO(band_path, band_file, reference_path, reference_file, output_path) ==
    OpenRead(reference_path, reference_file,
        OpenRead(band_path, band_file,
            Then(ReadPixels(band_file), OpenWrite(output_path, Done))))

\* the copy of the reference band: the source block holds the output block,
\* in which src.read() runs
CopyReferenceIO(band_path, band_file, output_path) ==
    OpenRead(band_path, band_file, OpenWrite(output_path, ReadPixels(band_file)))

\* ------------------------------------------------------------------ state
VARIABLES
    usgs,          \* src/usgs_data: [scene -> [band -> file]], <scene>_SR_<band>.TIF
    tree,          \* /tree/data/: same layout, read by src/vegetation-ortho.py
    order,         \* the order in which the directory listing yields the scenes
    alignedDir,    \* data/aligned_bands: <scene>_<band>_aligned.TIF
    ndviAligned,   \* data/ndvi_aligned_<scene>.tif
    ndviNum,       \* data/ndvi_<j>.tif
    prog,          \* the program that runs, or ran last
    status,        \* "idle", "running", "finished" or "crashed" (uncaught exception)
    runs,          \* programs started so far
    todo,          \* the scenes the running batch loop has still to visit
    visited,       \* the scenes whose loop body the running batch has entered
    out,           \* what the running program printed, as records
    scenes,        \* BandAligner.scenes: [scene -> sequence of band labels]
    refBand,       \* the reference_band argument of the BandAligner call
    alignedScenes, \* the dict align_all_scenes builds and returns
    useAligned,    \* use_aligned of src/src/vegetation-ortho.py
    j,             \* the output counter j of the NDVI scripts
    report,        \* what the last alignment check printed or returned
    io,            \* the handles the last operation opened and closed, in order
    handles        \* handles the running program has left open

vars == <<usgs, tree, order, alignedDir, ndviAligned, ndviNum, prog, status, runs,
          todo, visited, out, scenes, refBand, alignedScenes, useAligned, j, report,
          io, handles>>

fsVars == <<usgs, tree, order>>

\* ------------------------------------------------------------ BandAligner
\* BandAligner._find_scenes: every *_SR_B4.TIF names a scene; its B5 is added
\* when the file exists
FindScenes ==
    [s \in {x \in Scenes : usgs[x]["B4"].exists} |->
        IF usgs[s]["B5"].exists THEN <<"B4", "B5">> ELSE <<"B4">>]

\* rasterio.open(output, 'w', **profile) followed by dst.write(data)
WriteFile(profile, data) ==
    [exists |-> TRUE, ok |-> TRUE, sound |-> TRUE, crs |-> profile.crs,
     ox |-> profile.ox, oy |-> profile.oy, px |-> profile.px, w |-> profile.w,
     h |-> profile.h, dtype |-> profile.dtype, data |-> data]

\* rasterio.open(output, 'w', **profile) closed before anything was written:
\* the file is there and reads as zeros
CreateFile(profile) ==
    WriteFile(profile, [r \in 1..profile.h |-> [c \in 1..profile.w |-> 0]])

\* align_band_to_reference saving under the source's own profile
AlignUnderSourceProfile(band_file, reference_file) ==
    IF ~Readable(reference_file) \/ ~Loads(band_file)
    THEN [raised |-> TRUE, file |-> NoFile]
    ELSE [raised |-> FALSE,
          file |-> WriteFile(Profile(band_file), Reproject(band_file, reference_file))]

\* align_band_to_reference keeping the source's transform in the profile
AlignKeepingSourceTransform(band_file, reference_file) ==
    IF ~Readable(reference_file) \/ ~Loads(band_file)
    THEN [raised |-> TRUE, file |-> NoFile]
    ELSE [raised |-> FALSE,
          file |-> WriteFile([Profile(reference_file) EXCEPT !.dtype = band_file.dtype,
                                  !.ox = band_file.ox, !.oy = band_file.oy,
                                  !.px = band_file.px],
                             Reproject(band_file, reference_file))]

\* BandAligner.align_band_to_reference: the output takes the reference's
\* profile, its dtype replaced by the source's
AlignBandToReference(band_file, reference_file) ==
    IF ~Readable(reference_file) \/ ~Loads(band_file)
    THEN [raised |-> TRUE, file |-> NoFile]
    ELSE [raised |-> FALSE,
          file |-> WriteFile([Profile(reference_file) EXCEPT !.dtype = band_file.dtype],
                             Reproject(band_file, reference_file))]

\* the reference copied under a profile updated to float32, as the index is
CopyReferenceAsFloat(band_file) ==
    IF ~Readable(band_file)
    THEN [raised |-> TRUE, file |-> NoFile]
    ELSE IF ~band_file.sound
    THEN [raised |-> TRUE,
          file |-> CreateFile([Profile(band_file) EXCEPT !.dtype = "float32"])]
    ELSE [raised |-> FALSE,
          file |-> WriteFile([Profile(band_file) EXCEPT !.dtype = "float32"],
                             band_file.data)]

\* the reference band is copied as it is: dst.write(src.read()) under
\* src.profile; when src.read() fails the output has already been created
CopyReference(band_file) ==
    IF ~Readable(band_file)
    THEN [raised |-> TRUE, file |-> NoFile]
    ELSE IF ~band_file.sound
    THEN [raised |-> TRUE, file |-> CreateFile(Profile(band_file))]
    ELSE [raised |-> FALSE, file |-> WriteFile(Profile(band_file), band_file.data)]

\* the loop of align_scene over the scene's bands from position i on; it stops
\* at the first exception, leaving what it wrote before
RECURSIVE AlignBands(_, _, _, _, _)
AlignBands(dir, scene_name, reference_band, bands, i) ==
    IF i > Len(bands) THEN [raised |-> FALSE, dir |-> dir]
    ELSE LET band_name == bands[i]
             band_file == usgs[scene_name][band_name]
             res == IF band_name = reference_band
                    THEN CopyReference(band_file)
                    ELSE AlignBandToReference(band_file, usgs[scene_name][reference_band])
         IN  IF res.raised
             THEN [raised |-> TRUE,
                   dir |-> IF res.file.exists
                           THEN [dir EXCEPT ![scene_name][band_name] = res.file]
                           ELSE dir]
             ELSE AlignBands([dir EXCEPT ![scene_name][band_name] = res.file],
                             scene_name, reference_band, bands, i + 1)

\* a band label occurs in a sequence of labels
HasBand(bands, b) == \E i \in 1..Len(bands) : bands[i] = b

Msg(scene, text) == [scene |-> scene, text |-> text]

\* align_scene without the test of the reference band
AlignSceneUnchecked(dir, scene_name, reference_band) ==
    IF scene_name \notin DOMAIN scenes
    THEN [raised |-> FALSE, dir |-> dir, ret |-> [none |-> TRUE, keys |-> <<>>],
          printed |-> <<Msg(scene_name, "scene not found")>>]
    ELSE LET res == AlignBands(dir, scene_name, reference_band, scenes[scene_name], 1)
         IN  [raised |-> res.raised, dir |-> res.dir,
              ret |-> [none |-> res.raised,
                       keys |-> IF res.raised THEN <<>> ELSE scenes[scene_name]],
              printed |-> <<Msg(scene_name, "aligning scene")>>]

\* BandAligner.align_scene.  ret is the returned value: none for None, else the
\* keys of aligned_files in insertion order (each key b maps to
\* <output_dir>/<scene>_<b>_aligned.TIF).
AlignScene(dir, scene_name, reference_band) ==
    IF scene_name \notin DOMAIN scenes
    THEN [raised |-> FALSE, dir |-> dir, ret |-> [none |-> TRUE, keys |-> <<>>],
          printed |-> <<Msg(scene_name, "scene not found")>>]
    ELSE IF ~HasBand(scenes[scene_name], reference_band)
    THEN [raised |-> FALSE, dir |-> dir, ret |-> [none |-> TRUE, keys |-> <<>>],
          printed |-> <<Msg(scene_name, "reference band not found")>>]
    ELSE LET res == AlignBands(dir, scene_name, reference_band, scenes[scene_name], 1)
         IN  [raised |-> res.raised, dir |-> res.dir,
              ret |-> [none |-> res.raised,
                       keys |-> IF res.raised THEN <<>> ELSE scenes[scene_name]],
              printed |-> <<Msg(scene_name, "aligning scene")>>]

\* the loop of align_scene over the scene's bands from position i on
RECURSIVE AlignBandsIO(_, _, _, _)
AlignBandsIO(scene_name, reference_band, bands, i) ==
    IF i > Len(bands) THEN Done
    ELSE LET band_name == bands[i]
             band_path == PathOf("usgs", scene_name, band_name)
             aligned_file == PathOf("aligned", scene_name, band_name)
         IN  Then(IF band_name = reference_band
                  THEN CopyReferenceIO(band_path, usgs[scene_name][band_name], aligned_file)
                  ELSE AlignBandToReferenceIO(band_path, usgs[scene_name][band_name],
                           PathOf("usgs", scene_name, reference_band),
                           usgs[scene_name][reference_band], aligned_file),
                  AlignBandsIO(scene_name, reference_band, bands, i + 1))

\* the handles of align_scene: none for an unknown scene or a missing reference
AlignSceneIO(scene_name, reference_band) ==
    IF scene_name \notin DOMAIN scenes THEN Done
    ELSE IF ~HasBand(scenes[scene_name], reference_band) THEN Done
    ELSE AlignBandsIO(scene_name, reference_band, scenes[scene_name], 1)

\* ---------------------------------------------------------- program runs
\* f with key k set to v (a Python dict assignment)
Put(f, k, v) == [x \in (DOMAIN f) \cup {k} |-> IF x = k THEN v ELSE f[x]]

\* the members of the listing q that lie in the set S, in listing order
RECURSIVE Listed(_, _)
Listed(q, S) ==
    IF q = <<>> THEN <<>>
    ELSE IF Head(q) \in S THEN <<Head(q)>> \o Listed(Tail(q), S)
    ELSE Listed(Tail(q), S)

\* the state of a batch loop that has the scenes q still to visit
LoopStatus(q) == IF q = <<>> THEN "finished" ELSE "running"

CanStart == status # "running" /\ runs < MaxRuns

\* a program starts: what the previous one printed and returned is gone
Begin(name, q) ==
    /\ prog' = name
    /\ runs' = runs + 1
    /\ todo' = q
    /\ status' = LoopStatus(q)
    /\ visited' = <<>>
    /\ out' = <<>>
    /\ report' = [kind |-> "none"]
    /\ io' = <<>>
    /\ handles' = 0

\* an operation ran: the handles it opened and closed, and those it left open
Record(trace) ==
    \E t \in {trace} :
        /\ io' = t.events
        /\ handles' = handles + OpenAfter(t.events)

\* BandAligner(data_dir) is constructed and align_all_scenes(reference_band)
\* is called: the loop visits self.scenes in discovery order
AlignerStart ==
    /\ CanStart
    /\ \E reference_band \in Bands : refBand' = reference_band
    /\ scenes' = FindScenes
    /\ Begin("aligner", Listed(order, DOMAIN FindScenes))
    /\ alignedScenes' = <<>>
    /\ UNCHANGED <<fsVars, alignedDir, ndviAligned, ndviNum, useAligned, j>>

\* one iteration of the loop of align_all_scenes: align_scene under try/except
AlignAllScenesStep ==
    /\ prog = "aligner" /\ status = "running"
    /\ \E res \in {AlignScene(alignedDir, Head(todo), refBand)} :
       LET scene_name == Head(todo)
       IN  /\ alignedDir' = res.dir
           /\ IF res.raised
              THEN /\ alignedScenes' = alignedScenes
                   /\ out' = out \o res.printed \o <<Msg(scene_name, "error aligning scene")>>
              ELSE /\ alignedScenes' = Put(alignedScenes, scene_name, res.ret)
                   /\ out' = out \o res.printed \o <<Msg(scene_name, "aligned successfully")>>
           /\ visited' = Append(visited, scene_name)
           /\ todo' = Tail(todo)
           /\ status' = LoopStatus(Tail(todo))
    /\ Record(AlignSceneIO(Head(todo), refBand))
    /\ UNCHANGED <<fsVars, ndviAligned, ndviNum, prog, runs, scenes, refBand,
                   useAligned, j, report>>

\* align_scene(scene_name, reference_band) called by hand on the aligner that
\* align_all_scenes ran on, for any scene name and either label
AlignSceneCall ==
    /\ CanStart
    /\ prog \in {"aligner", "alignScene"} /\ status = "finished"
    /\ \E scene_name \in Scenes, reference_band \in Bands :
         \E res \in {AlignScene(alignedDir, scene_name, reference_band)} :
           /\ alignedDir' = res.dir
           /\ out' = res.printed
           /\ status' = IF res.raised THEN "crashed" ELSE "finished"
           /\ report' = [kind |-> "call", scene |-> scene_name,
                         reference_band |-> reference_band, raised |-> res.raised,
                         ret |-> res.ret, dir_before |-> alignedDir,
                         scenes_before |-> scenes]
           /\ Record(AlignSceneIO(scene_name, reference_band))
    /\ prog' = "alignScene"
    /\ runs' = runs + 1
    /\ todo' = <<>>
    /\ visited' = <<>>
    /\ UNCHANGED <<fsVars, ndviAligned, ndviNum, scenes, refBand, alignedScenes,
                   useAligned, j>>

\* ------------------------------------------- src/src/vegetation-ortho-aligned.py
\* align_band_to_reference of the script: the output is created from the
\* reference's height, width, CRS and transform and the source's dtype
ScriptAlignBandToReference(band_file, reference_file) ==
    IF ~Readable(reference_file) \/ ~Loads(band_file)
    THEN [raised |-> TRUE, file |-> NoFile]
    ELSE [raised |-> FALSE,
          file |-> WriteFile([crs |-> reference_file.crs, ox |-> reference_file.ox,
                              oy |-> reference_file.oy, px |-> reference_file.px,
                              w |-> reference_file.w, h |-> reference_file.h,
                              dtype |-> band_file.dtype],
                             Reproject(band_file, reference_file))]

\* the index raster of process_aligned_ndvi from the two aligned files
AlignedIndex(aligned_red, aligned_nir) ==
    WriteFile([Profile(aligned_red) EXCEPT !.dtype = "float32"],
              ScaledWrite(WhereZero(aligned_nir, aligned_red,
                                    NdviArray(aligned_nir, aligned_red)),
                          aligned_red.h, aligned_red.w))

\* the loop body of process_aligned_ndvi for the scene of one B4 file
AlignedNdviBody(scene) ==
    LET red_path == usgs[scene]["B4"]
        nir_path == usgs[scene]["B5"]
        nir_al == ScriptAlignBandToReference(nir_path, red_path)
        red_al == CopyReference(red_path)
    IN  IF ~nir_path.exists
        THEN [outcome |-> "skipped", dir |-> alignedDir, index |-> NoFile]
        ELSE IF nir_al.raised
        THEN [outcome |-> "crashed", dir |-> alignedDir, index |-> NoFile]
        ELSE IF red_al.raised
        THEN [outcome |-> "crashed",
              dir |-> [alignedDir EXCEPT ![scene] =
                          [B4 |-> IF red_al.file.exists THEN red_al.file ELSE @["B4"],
                           B5 |-> nir_al.file]],
              index |-> NoFile]
        ELSE [outcome |-> "saved",
              dir |-> [alignedDir EXCEPT ![scene] = [B4 |-> red_al.file, B5 |-> nir_al.file]],
              index |-> AlignedIndex(red_al.file, nir_al.file)]

\* the loop body with the index computed inside the block that copies the
\* reference: the aligned red file is read while its writer is still open
AlignedNdviBodyIONested(scene) ==
    LET red_path == PathOf("usgs", scene, "B4")
        nir_path == PathOf("usgs", scene, "B5")
        aligned_red == PathOf("aligned", scene, "B4")
        aligned_nir == PathOf("aligned", scene, "B5")
    IN  IF ~usgs[scene]["B5"].exists THEN Done
        ELSE Then(AlignBandToReferenceIO(nir_path, usgs[scene]["B5"],
                                         red_path, usgs[scene]["B4"], aligned_nir),
                  OpenRead(red_path, usgs[scene]["B4"],
                      OpenWrite(aligned_red,
                          Then(ReadPixels(usgs[scene]["B4"]),
                          Then(Scoped("r", aligned_red, Done),
                          Then(Scoped("r", aligned_nir, Done),
                               OpenWrite(PathOf("data", scene, "ndvi_aligned"), Done)))))))

\* the handles of the loop body: the two aligned files are written, each in
\* its own blocks, then read one after the other, then the index is written
AlignedNdviBodyIO(scene) ==
    LET red_path == PathOf("usgs", scene, "B4")
        nir_path == PathOf("usgs", scene, "B5")
        aligned_red == PathOf("aligned", scene, "B4")
        aligned_nir == PathOf("aligned", scene, "B5")
    IN  IF ~usgs[scene]["B5"].exists THEN Done
        ELSE Then(AlignBandToReferenceIO(nir_path, usgs[scene]["B5"],
                                         red_path, usgs[scene]["B4"], aligned_nir),
             Then(CopyReferenceIO(red_path, usgs[scene]["B4"], aligned_red),
             Then(Scoped("r", aligned_red, Done),
             Then(Scoped("r", aligned_nir, Done),
                  OpenWrite(PathOf("data", scene, "ndvi_aligned"), Done)))))

\* process_aligned_ndvi lists the B4 files of the input directory
ProcessAlignedNdviStart ==
    /\ CanStart
    /\ Begin("alignedNdvi", Listed(order, {s \in Scenes : usgs[s]["B4"].exists}))
    /\ UNCHANGED <<fsVars, alignedDir, ndviAligned, ndviNum, scenes, refBand,
                   alignedScenes, useAligned, j>>

\* one iteration of the loop of process_aligned_ndvi; an exception ends the run
ProcessAlignedNdviStep ==
    /\ prog = "alignedNdvi" /\ status = "running"
    /\ \E res \in {AlignedNdviBody(Head(todo))} :
       LET scene == Head(todo)
       IN  /\ visited' = Append(visited, scene)
           /\ alignedDir' = res.dir
           /\ IF res.outcome = "crashed"
              THEN /\ status' = "crashed"
                   /\ UNCHANGED <<todo, out, ndviAligned>>
              ELSE /\ todo' = Tail(todo)
                   /\ status' = LoopStatus(Tail(todo))
                   /\ IF res.outcome = "skipped"
                      THEN /\ out' = Append(out, Msg(scene, "no matching B5 file"))
                           /\ UNCHANGED ndviAligned
                      ELSE /\ out' = Append(out, Msg(scene, "ndvi saved"))
                           /\ ndviAligned' = [ndviAligned EXCEPT ![scene] = res.index]
    /\ Record(AlignedNdviBodyIO(Head(todo)))
    /\ UNCHANGED <<fsVars, ndviNum, prog, runs, scenes, refBand, alignedScenes,
                   useAligned, j, report>>

\* ---------------------------------------------- src/src/vegetation-ortho.py
\* use_aligned: the aligned directory holds some *_aligned.TIF
AnyAligned == \E s \in Scenes, b \in Bands : alignedDir[s][b].exists

\* the directory the script reads
DataSource(use_aligned) == IF use_aligned THEN alignedDir ELSE usgs

\* the name of the directory the script reads
SourceName(use_aligned) == IF use_aligned THEN "aligned" ELSE "usgs"

\* the file at a path
FileAt(path) ==
    IF path.dir = "aligned" THEN alignedDir[path.scene][path.name]
    ELSE IF path.dir = "usgs" THEN usgs[path.scene][path.name]
    ELSE tree[path.scene][path.name]

\* the NIR file looked up beside the original red file, whatever the mode
NirPathOriginal(use_aligned, red_path) == PathOf("usgs", red_path.scene, "B5")

\* nir_path: red_path with '_B4_aligned.TIF' replaced by '_B5_aligned.TIF' in
\* aligned mode and 'B4.TIF' by 'B5.TIF' otherwise, the directory kept
NirPath(use_aligned, red_path) == PathOf(red_path.dir, red_path.scene, "B5")

\* the array the script writes, or the exception it dies of
ScriptIndex(red, nir) ==
    IF ~Loads(red) \/ ~Loads(nir) \/ ~Broadcastable(red, nir)
    THEN [raised |-> TRUE, file |-> NoFile]
    ELSE LET ndvi == MaskNaN(nir, red, NdviArray(nir, red))
         IN  IF ~RangeAsserts(ndvi)
             THEN [raised |-> TRUE, file |-> NoFile]
             ELSE [raised |-> FALSE,
                   file |-> WriteFile([Profile(red) EXCEPT !.dtype = "float32"],
                                      ScaledWrite(ndvi, red.h, red.w))]

\* the handles of one iteration of an index script: the red file is read in
\* its block, then the NIR file in its block, and when nothing raised the
\* index file data/ndvi_<number>.tif is written in its block
IndexIO(red_path, red, nir_path, nir, raised, number) ==
    Then(OpenRead(red_path, red, ReadPixels(red)),
    Then(OpenRead(nir_path, nir, ReadPixels(nir)),
    Then(IF raised THEN Raise ELSE Done,
         OpenWrite(PathOf("data", number, "ndvi"), Done))))

\* the script picks its directory once and lists its B4 files
NdviStart ==
    /\ CanStart
    /\ useAligned' = AnyAligned
    /\ Begin("ndvi", Listed(order, {s \in Scenes : DataSource(AnyAligned)[s]["B4"].exists}))
    /\ j' = 1
    /\ UNCHANGED <<fsVars, alignedDir, ndviAligned, ndviNum, scenes, refBand,
                   alignedScenes>>

\* one iteration of the script's loop; an exception ends the script
NdviStep ==
    /\ prog = "ndvi" /\ status = "running"
    /\ LET scene == Head(todo)
           red_path == PathOf(SourceName(useAligned), scene, "B4")
           nir_path == NirPath(useAligned, red_path)
           res == ScriptIndex(FileAt(red_path), FileAt(nir_path))
       IN  /\ visited' = Append(visited, scene)
           /\ Record(IndexIO(red_path, FileAt(red_path), nir_path, FileAt(nir_path),
                             res.raised, j))
           /\ IF res.raised
              THEN /\ status' = "crashed"
                   /\ UNCHANGED <<todo, out, ndviNum, j>>
              ELSE /\ todo' = Tail(todo)
                   /\ status' = LoopStatus(Tail(todo))
                   /\ out' = Append(out, Msg(scene, "ndvi saved"))
                   /\ ndviNum' = [ndviNum EXCEPT ![j] = res.file]
                   /\ j' = j + 1
    /\ UNCHANGED <<fsVars, alignedDir, ndviAligned, prog, runs, scenes, refBand,
                   alignedScenes, useAligned, report>>

\* -------------------------------------------------- src/vegetation-ortho.py
\* the array the script writes, or the exception it dies of
RootIndex(red, nir) ==
    IF ~Loads(red) \/ ~Loads(nir) \/ ~Broadcastable(red, nir)
    THEN [raised |-> TRUE, file |-> NoFile]
    ELSE [raised |-> FALSE,
          file |-> WriteFile([Profile(red) EXCEPT !.dtype = "float32"],
                             ScaledWrite(Clip(MaskNaN(nir, red, NdviArray(nir, red))),
                                         red.h, red.w))]

NdviRootStart ==
    /\ CanStart
    /\ Begin("ndviRoot", Listed(order, {s \in Scenes : tree[s]["B4"].exists}))
    /\ j' = 1
    /\ UNCHANGED <<fsVars, alignedDir, ndviAligned, ndviNum, scenes, refBand,
                   alignedScenes, useAligned>>

NdviRootStep ==
    /\ prog = "ndviRoot" /\ status = "running"
    /\ LET scene == Head(todo)
           res == RootIndex(tree[scene]["B4"], tree[scene]["B5"])
       IN  /\ visited' = Append(visited, scene)
           /\ IF res.raised
              THEN /\ status' = "crashed"
                   /\ UNCHANGED <<todo, out, ndviNum, j>>
              ELSE /\ todo' = Tail(todo)
                   /\ status' = LoopStatus(Tail(todo))
                   /\ out' = Append(out, Msg(scene, "ndvi saved"))
                   /\ ndviNum' = [ndviNum EXCEPT ![j] = res.file]
                   /\ j' = j + 1
    /\ Record(IndexIO(PathOf("tree", Head(todo), "B4"), tree[Head(todo)]["B4"],
                       PathOf("tree", Head(todo), "B5"), tree[Head(todo)]["B5"],
                       RootIndex(tree[Head(todo)]["B4"], tree[Head(todo)]["B5"]).raised, j))
    /\ UNCHANGED <<fsVars, alignedDir, ndviAligned, prog, runs, scenes, refBand,
                   alignedScenes, useAligned, report>>

\* ------------------------------------------- src/src/georeference_analysis.py
\* max(abs(a[0] - b[0]), ..., abs(a[3] - b[3])) of two bounds tuples
MaxDiff(a, b) ==
    Max2(Max2(Abs(a[1] - b[1]), Abs(a[2] - b[2])),
         Max2(Abs(a[3] - b[3]), Abs(a[4] - b[4])))

\* a comparison of the bounds alone
BoundsDiffer(band_info, ref_info) == band_info.bounds_wgs84 # ref_info.bounds_wgs84

\* the comparison of SceneAnalyzer.check_alignment: a band differs from the
\* reference in bounds or in shape
InfoDiffers(band_info, ref_info) ==
    \/ band_info.bounds_wgs84 # ref_info.bounds_wgs84
    \/ band_info.shape # ref_info.shape

\* the loop of SceneAnalyzer.check_alignment over list(bands.values())[1:]
RECURSIVE CheckAlignmentFrom(_, _)
CheckAlignmentFrom(files, i) ==
    IF i > Len(files) THEN [raised |-> FALSE, value |-> TRUE]
    ELSE IF ~Readable(files[i]) THEN [raised |-> TRUE, value |-> FALSE]
    ELSE IF InfoDiffers(GetInfo(files[i]), GetInfo(files[1]))
    THEN [raised |-> FALSE, value |-> FALSE]
    ELSE CheckAlignmentFrom(files, i + 1)

\* SceneAnalyzer.check_alignment on the files of a bands mapping, in
\* insertion order
CheckAlignment(files) ==
    IF Len(files) < 2 THEN [raised |-> FALSE, value |-> TRUE]
    ELSE IF ~Readable(files[1]) THEN [raised |-> TRUE, value |-> FALSE]
    ELSE CheckAlignmentFrom(files, 2)

\* the comparisons of AlignmentChecker.check of one band with the reference
BoundsMatch(ref_info, band_info) == ref_info.bounds_wgs84 = band_info.bounds_wgs84

ShapeMatch(ref_info, band_info) == ref_info.shape = band_info.shape

\* nothing printed yet
NoLines == [raised |-> FALSE, only_one |-> FALSE, misaligned |-> {}, diff |-> <<>>,
            shape_line |-> {}, all_aligned |-> FALSE]

\* the loop of AlignmentChecker.check from position i on; acc holds what was
\* printed so far
RECURSIVE CheckFrom(_, _, _, _)
CheckFrom(labels, files, i, acc) ==
    IF i > Len(files) THEN [acc EXCEPT !.all_aligned = (acc.misaligned = {})]
    ELSE IF ~Readable(files[i]) THEN [acc EXCEPT !.raised = TRUE]
    ELSE LET ref_info == GetInfo(files[1])
             band_info == GetInfo(files[i])
             bounds_match == BoundsMatch(ref_info, band_info)
             shape_match == ShapeMatch(ref_info, band_info)
         IN  IF ~(bounds_match /\ shape_match)
             THEN CheckFrom(labels, files, i + 1,
                      [acc EXCEPT !.misaligned = @ \cup {labels[i]},
                                  !.diff = Put(@, labels[i],
                                               MaxDiff(ref_info.bounds_wgs84,
                                                       band_info.bounds_wgs84)),
                                  !.shape_line = IF ref_info.shape # band_info.shape
                                                 THEN @ \cup {labels[i]} ELSE @])
             ELSE CheckFrom(labels, files, i + 1, acc)

\* a sequence back to front
Reversed(q) == [i \in 1..Len(q) |-> q[Len(q) + 1 - i]]

\* the check with the last band of the mapping as the reference
CheckLastAsReference(labels, files) ==
    IF Len(files) < 2 THEN [NoLines EXCEPT !.only_one = TRUE]
    ELSE IF ~Readable(files[Len(files)]) THEN [NoLines EXCEPT !.raised = TRUE]
    ELSE CheckFrom(Reversed(labels), Reversed(files), 2, NoLines)

\* AlignmentChecker.check: what it prints for a bands mapping given as its
\* labels and files in insertion order
Check(labels, files) ==
    IF Len(files) < 2 THEN [NoLines EXCEPT !.only_one = TRUE]
    ELSE IF ~Readable(files[1]) THEN [NoLines EXCEPT !.raised = TRUE]
    ELSE CheckFrom(labels, files, 2, NoLines)

\* AlignmentChecker.check_crs: the bands it prints as having another CRS
CheckCrs(labels, files) ==
    IF Len(files) < 2 THEN [raised |-> FALSE, different |-> {}]
    ELSE IF \E i \in 1..Len(files) : ~Readable(files[i])
    THEN [raised |-> TRUE, different |-> {}]
    ELSE [raised |-> FALSE,
          different |-> {labels[i] : i \in {k \in 2..Len(files) :
                             GetInfo(files[k]).crs # GetInfo(files[1]).crs}}]

\* AlignmentChecker.check_raw_bounds: the difference it prints for every
\* band but the first
CheckRawBounds(labels, files) ==
    IF Len(files) < 2 THEN [raised |-> FALSE, diff |-> <<>>]
    ELSE IF \E i \in 1..Len(files) : ~Readable(files[i])
    THEN [raised |-> TRUE, diff |-> <<>>]
    ELSE [raised |-> FALSE,
          diff |-> [b \in {labels[i] : i \in 2..Len(files)} |->
                      LET i == CHOOSE k \in 2..Len(files) : labels[k] = b
                      IN  MaxDiff(RawBounds(files[i]), RawBounds(files[1]))]]

\* the file a reference names
Dir(name) == IF name = "aligned" THEN alignedDir ELSE usgs

FileOf(ref) == Dir(ref.dir)[ref.scene][ref.label]

\* the bands mappings a caller can build from one scene of a directory: the
\* band files that exist, in either insertion order
Mappings(dir) ==
    {m \in UNION {[1..n -> [label : Bands, dir : {dir}, scene : Scenes]] :
                      n \in 1..Cardinality(Bands)} :
        /\ \A i \in DOMAIN m : m[i].scene = m[1].scene
        /\ \A i, k \in DOMAIN m : i # k => m[i].label # m[k].label
        /\ \A i \in DOMAIN m : FileOf(m[i]).exists}

\* get_info of the bands of a mapping from position i on, one after the other
RECURSIVE GetInfosIO(_, _)
GetInfosIO(m, i) ==
    IF i > Len(m) THEN Done
    ELSE Then(GetInfoIO(PathOf(m[i].dir, m[i].scene, m[i].label), FileOf(m[i])),
              GetInfosIO(m, i + 1))

\* check_alignment stops at the first band that differs from the first
RECURSIVE CheckAlignmentIO(_, _)
CheckAlignmentIO(m, i) ==
    IF i > Len(m) THEN Done
    ELSE Then(GetInfoIO(PathOf(m[i].dir, m[i].scene, m[i].label), FileOf(m[i])),
              IF i > 1 /\ InfoDiffers(GetInfo(FileOf(m[i])), GetInfo(FileOf(m[1])))
              THEN Done ELSE CheckAlignmentIO(m, i + 1))

\* the handles of test_scene_alignment: those of check_alignment, check_crs,
\* check and check_raw_bounds
TestIO(m) ==
    IF Len(m) < 2 THEN Done
    ELSE Then(CheckAlignmentIO(m, 1),
         Then(GetInfosIO(m, 1), Then(GetInfosIO(m, 1), GetInfosIO(m, 1))))

\* TestSuite.test_scene_alignment(scene_bands): check_alignment, check_crs,
\* check and check_raw_bounds in turn; the first exception ends the call
TestSceneAlignment(dir) ==
    /\ CanStart
    /\ \E m \in Mappings(dir) :
         LET labels == [i \in DOMAIN m |-> m[i].label]
             files == [i \in DOMAIN m |-> FileOf(m[i])]
         IN  \E basic \in {CheckAlignment(files)}, crs \in {CheckCrs(labels, files)},
                spatial \in {Check(labels, files)}, raw \in {CheckRawBounds(labels, files)} :
               LET raised == basic.raised \/ crs.raised \/ spatial.raised \/ raw.raised
               IN  /\ report' = [kind |-> "test", bands |-> m, raised |-> raised,
                                 is_aligned |-> basic.value,
                                 crs_different |-> crs.different,
                                 check |-> spatial, raw_diff |-> raw.diff,
                                 results |-> IF raised THEN <<>>
                                             ELSE <<[scene |-> labels,
                                                     aligned |-> basic.value,
                                                     bands_count |-> Len(m)]>>]
                   /\ status' = IF raised THEN "crashed" ELSE "finished"
                   /\ \E t \in {TestIO(m)} :
                          /\ io' = t.events
                          /\ handles' = OpenAfter(t.events)
    /\ prog' = "test"
    /\ runs' = runs + 1
    /\ todo' = <<>>
    /\ visited' = <<>>
    /\ out' = <<>>
    /\ UNCHANGED <<fsVars, alignedDir, ndviAligned, ndviNum, scenes, refBand,
                   alignedScenes, useAligned, j>>

\* TestSuite.generate_report on self.results: nothing but a message for an
\* empty list, else the counts, the success rate and alignment_report.txt
GenerateReport(results) ==
    IF results = <<>>
    THEN [written |-> FALSE, divided |-> FALSE, total_scenes |-> 0,
          aligned_scenes |-> 0, misaligned_scenes |-> 0, rate |-> NaN]
    ELSE LET total_scenes == Len(results)
             aligned_scenes == Cardinality({i \in 1..Len(results) : results[i].aligned})
         IN  [written |-> TRUE, divided |-> TRUE, total_scenes |-> total_scenes,
              aligned_scenes |-> aligned_scenes,
              misaligned_scenes |-> total_scenes - aligned_scenes,
              rate |-> Divide(aligned_scenes * 100, total_scenes)]

\* generate_report not reached: no message, no file
NotReported ==
    [written |-> FALSE, divided |-> FALSE, total_scenes |-> 0,
     aligned_scenes |-> 0, misaligned_scenes |-> 0, rate |-> NaN]

\* generate_report called on the suite after test_scene_alignment returned
GenerateReportCall ==
    /\ prog = "test" /\ status = "finished" /\ report.kind = "test"
    /\ report' = [kind |-> "summary", groups |-> Len(report.results), raised |-> FALSE,
                  results |-> report.results, summary |-> GenerateReport(report.results)]
    /\ prog' = "report"
    /\ io' = <<>>
    /\ UNCHANGED <<fsVars, alignedDir, ndviAligned, ndviNum, status, runs, todo, visited,
                   out, scenes, refBand, alignedScenes, useAligned, j, handles>>

\* file_groups of run_all_tests: the scenes of the aligned directory that
\* have a band file, in listing order
FileGroups == Listed(order, {s \in Scenes : \E b \in Bands : alignedDir[s][b].exists})

\* the bands mapping of a group: its files under their labels, B5 first when
\* the listing yields it first
GroupBands(s, b5_first) ==
    LET labels == IF b5_first THEN <<"B5", "B4">> ELSE <<"B4", "B5">>
        found == Listed(labels, {b \in Bands : alignedDir[s][b].exists})
    IN  [i \in 1..Len(found) |-> [label |-> found[i], dir |-> "aligned", scene |-> s]]

\* the loop of run_all_tests over the groups from position i on: get_info of
\* the first band, check_alignment, check; no result is stored
RECURSIVE RunAllTestsIO(_, _, _)
RunAllTestsIO(groups, b5_first, i) ==
    IF i > Len(groups) THEN Done
    ELSE LET m == GroupBands(groups[i], b5_first)
         IN  Then(GetInfoIO(PathOf("aligned", m[1].scene, m[1].label), FileOf(m[1])),
             Then(IF Len(m) < 2 THEN Done
                  ELSE Then(CheckAlignmentIO(m, 1), GetInfosIO(m, 1)),
                  RunAllTestsIO(groups, b5_first, i + 1)))

\* main() of tests/alignment_testing.py: a new TestSuite, run_all_tests, then
\* generate_report on the results the suite holds, which run_all_tests never
\* appends to
TestMain ==
    /\ CanStart
    /\ \E b5_first \in BOOLEAN :
         \E t \in {RunAllTestsIO(FileGroups, b5_first, 1)} :
           /\ io' = t.events
           /\ handles' = OpenAfter(t.events)
           /\ status' = IF t.raised THEN "crashed" ELSE "finished"
           /\ report' = [kind |-> "main", groups |-> Len(FileGroups), raised |-> t.raised,
                         results |-> <<>>,
                         summary |-> IF t.raised THEN NotReported
                                     ELSE GenerateReport(<<>>)]
    /\ prog' = "main"
    /\ runs' = runs + 1
    /\ todo' = <<>>
    /\ visited' = <<>>
    /\ out' = <<>>
    /\ UNCHANGED <<fsVars, alignedDir, ndviAligned, ndviNum, scenes, refBand,
                   alignedScenes, useAligned, j>>

\* the test of a scene of the input directory
TestOriginalScene == TestSceneAlignment("usgs")

\* the test of a scene of the aligned directory
TestAlignedScene == TestSceneAlignment("aligned")

\* ------------------------------------------------------------ initial state
GoodB4 == MkFile(TRUE, UTM, 0, 0, 1, 2, 1, 1, 1)
GoodB5 == MkFile(TRUE, UTM, 0, 0, 1, 2, 1, 3, 3)
GoodScene == [B4 |-> GoodB4, B5 |-> GoodB5]
NoScene == [B4 |-> NoFile, B5 |-> NoFile]

\* the reference band on a grid at the origin, the other band on any grid
GridScenes ==
    {[B4 |-> MkFile(TRUE, c4, 0, 0, 1, w4, h4, 3, 1),
      B5 |-> MkFile(TRUE, c5, ox, oy, px, w5, h5, 1, 3)] :
        c4 \in CRSs, w4 \in 1..MaxDim, h4 \in 1..MaxDim,
        c5 \in CRSs, ox \in 0..MaxOrigin, oy \in 0..MaxOrigin, px \in PixelSizes,
        w5 \in 1..MaxDim, h5 \in 1..MaxDim}

\* the grid scenes whose B4 is the smallest or the largest square
SquareScenes ==
    {sc \in GridScenes : sc["B4"].w = sc["B4"].h /\ sc["B4"].w \in {1, MaxDim}}

\* both bands on one grid of two pixels, every pair of sample matrices
DataScenes ==
    {[B4 |-> MkFile(TRUE, UTM, 0, 0, 1, 2, 1, r1, r2),
      B5 |-> MkFile(TRUE, UTM, 0, 0, 1, 2, 1, n1, n2)] :
        r1 \in SampleValues, r2 \in SampleValues,
        n1 \in SampleValues, n2 \in SampleValues}

\* red 100 and NIR 300 at every pixel of one grid
ScenarioScene ==
    [B4 |-> MkFile(TRUE, UTM, 0, 0, 1, MaxDim, MaxDim, 100, 100),
     B5 |-> MkFile(TRUE, UTM, 0, 0, 1, MaxDim, MaxDim, 300, 300)]

\* a band file is there, is there but does not open, opens but cannot be
\* read, or is missing
FaultScenes ==
    {[B4 |-> b4, B5 |-> b5] :
        b4 \in {GoodB4, [GoodB4 EXCEPT !.ok = FALSE], [GoodB4 EXCEPT !.sound = FALSE],
                 NoFile},
        b5 \in {GoodB5, [GoodB5 EXCEPT !.ok = FALSE], [GoodB5 EXCEPT !.sound = FALSE],
                 NoFile}}

Perms == {q \in [Scenes -> Scenes] : \A a, b \in Scenes : a # b => q[a] # q[b]}

Identity == [s \in Scenes |-> s]

\* a directory whose first scene is `first`, the others complete
With(first) == [s \in Scenes |-> IF s = 1 THEN first ELSE GoodScene]

EmptyDir == [s \in Scenes |-> NoScene]

InitRest ==
    /\ alignedDir = EmptyDir
    /\ ndviAligned = [s \in Scenes |-> NoFile]
    /\ ndviNum = [n \in Scenes |-> NoFile]
    /\ prog = "none"
    /\ status = "idle"
    /\ runs = 0
    /\ todo = <<>>
    /\ visited = <<>>
    /\ out = <<>>
    /\ scenes = <<>>
    /\ refBand = "B4"
    /\ alignedScenes = <<>>
    /\ useAligned = FALSE
    /\ j = 1
    /\ report = [kind |-> "none"]
    /\ io = <<>>
    /\ handles = 0

\* the inputs of every program: band files on differing grids, with differing
\* samples, missing or unreadable
Init ==
    /\ \/ /\ \E first \in GridScenes \cup DataScenes \cup {ScenarioScene} :
                usgs = With(first)
          /\ order = Identity
          /\ tree = EmptyDir
       \/ /\ usgs \in [Scenes -> FaultScenes]
          /\ order \in Perms
          /\ tree = EmptyDir
       \/ /\ usgs = EmptyDir
          /\ order \in Perms
          /\ \E first \in DataScenes \cup FaultScenes : tree = With(first)
    /\ InitRest

Next ==
    \/ AlignerStart
    \/ AlignAllScenesStep
    \/ AlignSceneCall
    \/ ProcessAlignedNdviStart
    \/ ProcessAlignedNdviStep
    \/ NdviStart
    \/ NdviStep
    \/ NdviRootStart
    \/ NdviRootStep
    \/ TestOriginalScene
    \/ TestAlignedScene
    \/ GenerateReportCall
    \/ TestMain

Spec == Init /\ [][Next]_vars

\* the inputs of the aligning programs: a first scene whose B4 is a square of
\* one pixel or of the largest size at the origin and whose B5 lies on any
\* grid, or whose files are missing or unreadable
InitAlign ==
    /\ \/ /\ \E first \in SquareScenes : usgs = With(first)
          /\ order = Identity
       \/ /\ \E first \in FaultScenes : usgs = With(first)
          /\ order \in Perms
    /\ tree = EmptyDir
    /\ InitRest

\* the programs that write or check the aligned directory
NextAlign ==
    \/ AlignerStart
    \/ AlignAllScenesStep
    \/ ProcessAlignedNdviStart
    \/ ProcessAlignedNdviStep
    \/ TestAlignedScene

SpecAlign == InitAlign /\ [][NextAlign]_vars

\* the inputs of the alignment checks: a first scene whose B4 is a square at
\* the origin and whose B5 lies on any grid, or whose files are missing or
\* unreadable
InitCheck ==
    /\ \E first \in SquareScenes \cup FaultScenes : usgs = With(first)
    /\ order = Identity
    /\ tree = EmptyDir
    /\ InitRest

\* the alignment test of the scenes of the input directory
NextCheck == TestOriginalScene

SpecCheck == InitCheck /\ [][NextCheck]_vars

\* the inputs of the index scripts that read src/usgs_data: a first scene with
\* both bands on one grid and any samples
InitIndex ==
    /\ \E first \in DataScenes \cup {ScenarioScene} : usgs = With(first)
    /\ order = Identity
    /\ tree = EmptyDir
    /\ InitRest

\* process_aligned_ndvi and src/src/vegetation-ortho.py
NextIndex ==
    \/ ProcessAlignedNdviStart
    \/ ProcessAlignedNdviStep
    \/ NdviStart
    \/ NdviStep

SpecIndex == InitIndex /\ [][NextIndex]_vars

\* the inputs that make operations fail: a first scene whose files are
\* missing, do not open or cannot be read, listed in any order
InitHandles ==
    /\ \E first \in FaultScenes : usgs = With(first)
    /\ order \in Perms
    /\ tree = EmptyDir
    /\ InitRest

\* the aligning programs and the test of the input directory
NextHandles ==
    \/ AlignerStart
    \/ AlignAllScenesStep
    \/ AlignSceneCall
    \/ ProcessAlignedNdviStart
    \/ ProcessAlignedNdviStep
    \/ TestOriginalScene

SpecHandles == InitHandles /\ [][NextHandles]_vars

\* ================================================================= claims
\* the batch programs and the list of scenes each one's loop runs over
BatchProgs == {"aligner", "alignedNdvi", "ndvi", "ndviRoot"}

BatchList ==
    IF prog = "aligner" THEN Listed(order, DOMAIN scenes)
    ELSE IF prog = "alignedNdvi" THEN Listed(order, {s \in Scenes : usgs[s]["B4"].exists})
    ELSE IF prog = "ndvi"
    THEN Listed(order, {s \in Scenes : DataSource(useAligned)[s]["B4"].exists})
    ELSE Listed(order, {s \in Scenes : tree[s]["B4"].exists})

Stopped == status \in {"finished", "crashed"}

\* the lines of `out` with a given text, as the scenes they name
Said(text) == {out[k].scene : k \in {i \in 1..Len(out) : out[i].text = text}}

\* the tolerance of the specification's alignment rule: 1e-6 degree, in
\* units of 5e-7 degree
Tolerance == 2

\* a test of a mapping of two or more bands that ran to its end
Tested == prog = "test" /\ report.kind = "test" /\ ~report.raised /\ Len(report.bands) >= 2

WithinTolerance(a, b) == \A i \in 1..4 : Abs(a[i] - b[i]) <= Tolerance

\* C1: the alignment check reports a band other than the reference as aligned
\* if and only if its four WGS84 bounds are within the tolerance of the
\* reference's and its shape is the reference's; a band of another shape is
\* reported misaligned with its shape shown as not matching.
C1_AlignedIffWithinTolerance ==
    Tested =>
        \A i \in 2..Len(report.bands) :
            LET ref_info == GetInfo(FileOf(report.bands[1]))
                band_info == GetInfo(FileOf(report.bands[i]))
                label == report.bands[i].label
            IN  /\ (label \notin report.check.misaligned) <=>
                       (/\ WithinTolerance(ref_info.bounds_wgs84, band_info.bounds_wgs84)
                        /\ ref_info.shape = band_info.shape)
                /\ ref_info.shape # band_info.shape =>
                       label \in report.check.misaligned /\ label \in report.check.shape_line

\* the index rasters on disk
IndexRasters ==
    {ndviAligned[s] : s \in {x \in Scenes : ndviAligned[x].exists}}
        \cup {ndviNum[n] : n \in {x \in Scenes : ndviNum[x].exists}}

\* the index rasters the last program wrote, each with the two band files it
\* was computed from.  The k-th "ndvi saved" line of an NDVI script is the
\* write of data/ndvi_<k>.tif.
IndexRuns ==
    IF prog = "alignedNdvi"
    THEN {[red |-> alignedDir[s]["B4"], nir |-> alignedDir[s]["B5"],
           index |-> ndviAligned[s]] : s \in Said("ndvi saved")}
    ELSE IF prog = "ndvi"
    THEN {[red |-> DataSource(useAligned)[out[k].scene]["B4"],
           nir |-> DataSource(useAligned)[out[k].scene]["B5"],
           index |-> ndviNum[k]] : k \in 1..Len(out)}
    ELSE IF prog = "ndviRoot"
    THEN {[red |-> tree[out[k].scene]["B4"], nir |-> tree[out[k].scene]["B5"],
           index |-> ndviNum[k]] : k \in 1..Len(out)}
    ELSE {}

\* C2: no index raster on disk holds a finite value outside [-1, 1], whichever
\* script wrote it and whatever the samples of its input bands (a range
\* violation stops the scene before its raster is written).
C2_IndexInUnitInterval ==
    \A f \in IndexRasters : \A v \in Values(f.data) \ {NaN} : InUnit(v)

\* the fill value an index raster is declared to hold where nir + red = 0
FillValue == <<0, 1>>

\* C3: at every pixel where nir + red = 0 every script writes the one declared
\* fill value, never NaN: the value written there does not depend on the
\* script that computed the index.
C3_OneFillValue ==
    \A run \in IndexRuns :
        (run.red.h = run.index.h /\ run.red.w = run.index.w
            /\ Max2(run.nir.h, run.red.h) = run.red.h
            /\ Max2(run.nir.w, run.red.w) = run.red.w) =>
        \A r \in 1..run.index.h, c \in 1..run.index.w :
            At(run.nir, r, c) + At(run.red, r, c) = 0 =>
                run.index.data[r][c] = FillValue /\ run.index.data[r][c] # NaN

\* C10: an index raster is written only from two bands on one grid: when the
\* bands' grids differ in CRS, transform or dimensions the computation fails
\* and writes nothing.
C10_IndexOnlyFromEqualGrids ==
    \A run \in IndexRuns : Grid(run.red) = Grid(run.nir)

\* C7: in every batch program a failure in one scene leaves the rest of the
\* batch to be processed: when the program has stopped, every scene of its
\* list was visited exactly once, in order.
C7_BatchVisitsEveryScene ==
    (prog \in BatchProgs /\ Stopped) => visited = BatchList

\* the outcome lines of align_all_scenes about a scene
SuccessLines(s) == {k \in 1..Len(out) : out[k].scene = s /\ out[k].text = "aligned successfully"}

FailureLines(s) ==
    {k \in 1..Len(out) : out[k].scene = s /\
        out[k].text \in {"error aligning scene", "reference band not found", "scene not found"}}

\* C8: align_all_scenes reports one outcome per scene, and success only for a
\* scene whose aligned files were produced: a scene for which align_scene
\* returned nothing is reported as a failure and not recorded as aligned.
C8_SuccessOnlyWhenAligned ==
    prog = "aligner" =>
        \A i \in 1..Len(visited) :
            LET s == visited[i]
            IN  /\ Cardinality(SuccessLines(s)) + Cardinality(FailureLines(s)) = 1
                /\ SuccessLines(s) # {} =>
                       /\ s \in DOMAIN alignedScenes
                       /\ ~alignedScenes[s].none
                       /\ \A k \in 1..Len(scenes[s]) : alignedDir[s][scenes[s][k]].exists
                /\ FailureLines(s) # {} => s \notin DOMAIN alignedScenes

\* the directory a batch program takes its band files from
BatchSource ==
    IF prog = "ndviRoot" THEN tree
    ELSE IF prog = "ndvi" THEN DataSource(useAligned)
    ELSE usgs

\* C9: a red band whose NIR file is missing is caught per scene in every batch
\* program: the scene's missing counterpart is recorded, no index raster is
\* written for it, and the batch visits the remaining scenes.
C9_MissingCounterpartIsSceneLocal ==
    (prog \in BatchProgs /\ Stopped) =>
        \A i \in 1..Len(BatchList) :
            LET s == BatchList[i]
            IN  ~BatchSource[s]["B5"].exists =>
                    /\ s \in Said("no matching B5 file")
                    /\ s \notin Said("ndvi saved")
                    /\ visited = BatchList

\* two raster files with the same profile and the same samples
SameRaster(a, b) == a.exists /\ b.exists /\ Profile(a) = Profile(b) /\ a.data = b.data

\* the scenes align_scene has aligned completely in this run of the aligner
AlignedHere == {s \in DOMAIN alignedScenes : ~alignedScenes[s].none}

\* C4: aligning a scene never alters its reference band: the aligned file
\* written for the reference has the profile and the samples of the reference
\* input file, for either reference label and in both aligning programs.
C4_ReferenceUnaltered ==
    /\ prog = "aligner" =>
           \A s \in AlignedHere : SameRaster(alignedDir[s][refBand], usgs[s][refBand])
    /\ prog = "alignedNdvi" =>
           \A s \in Said("ndvi saved") : SameRaster(alignedDir[s]["B4"], usgs[s]["B4"])

\* C4's case: a scene aligned to its B5, whose B4 lay on another grid and was
\* changed by the resampling
C4_Witness ==
    /\ prog = "aligner" /\ refBand = "B5"
    /\ \E s \in AlignedHere :
           /\ Len(alignedScenes[s].keys) = 2
           /\ Grid(usgs[s]["B4"]) # Grid(usgs[s]["B5"])
           /\ alignedDir[s]["B4"].data # usgs[s]["B4"].data
           /\ SameRaster(alignedDir[s]["B5"], usgs[s]["B5"])

\* a file lies on the grid of ref and its sample matrix has ref's shape
OnGridOf(f, ref) ==
    /\ f.exists
    /\ Grid(f) = Grid(ref)
    /\ Len(f.data) = ref.h
    /\ \A r \in 1..Len(f.data) : Len(f.data[r]) = ref.w

\* C5: the output of align_band_to_reference has the CRS, transform, width
\* and height of the reference band and a sample matrix of the reference's
\* shape, whatever the grid of the source band.
C5_AlignedOutputOnReferenceGrid ==
    /\ prog = "aligner" =>
           \A s \in AlignedHere : \A k \in 1..Len(alignedScenes[s].keys) :
               alignedScenes[s].keys[k] # refBand =>
                   OnGridOf(alignedDir[s][alignedScenes[s].keys[k]], usgs[s][refBand])
    /\ prog = "alignedNdvi" =>
           \A s \in Said("ndvi saved") : OnGridOf(alignedDir[s]["B5"], usgs[s]["B4"])

\* C5's case: a source band aligned whose CRS, origin, pixel size, width and
\* height all differed from the reference's
C5_Witness ==
    /\ prog = "aligner" /\ refBand = "B4"
    /\ \E s \in AlignedHere :
           /\ Len(alignedScenes[s].keys) = 2
           /\ usgs[s]["B5"].crs # usgs[s]["B4"].crs
           /\ usgs[s]["B5"].ox # usgs[s]["B4"].ox
           /\ usgs[s]["B5"].px # usgs[s]["B4"].px
           /\ usgs[s]["B5"].w # usgs[s]["B4"].w
           /\ usgs[s]["B5"].h # usgs[s]["B4"].h
           /\ OnGridOf(alignedDir[s]["B5"], usgs[s]["B4"])

\* the test ran on the aligned files of a scene that align_scene aligned
\* completely, the reference first and every band of the scene included
TestedAlignedScene ==
    /\ prog = "test" /\ report.kind = "test"
    /\ report.bands[1].dir = "aligned"
    /\ report.bands[1].scene \in AlignedHere
    /\ report.bands[1].label = refBand
    /\ Len(report.bands) = Len(alignedScenes[report.bands[1].scene].keys)

\* C6: after align_scene has written the aligned files of a scene, the
\* alignment check of those files, reference first, reports every band
\* aligned, whatever the grids of the original files.
C6_AlignThenCheckAligned ==
    TestedAlignedScene =>
        /\ ~report.raised
        /\ report.is_aligned
        /\ report.check.misaligned = {}
        /\ Len(report.bands) >= 2 => report.check.all_aligned

\* C6's case: the check ran on two aligned bands whose originals differed in
\* bounds and in shape
C6_Witness ==
    /\ TestedAlignedScene
    /\ Len(report.bands) = 2
    /\ report.check.all_aligned
    /\ LET s == report.bands[1].scene
       IN  /\ GetInfo(usgs[s]["B4"]).bounds_wgs84 # GetInfo(usgs[s]["B5"]).bounds_wgs84
           /\ GetInfo(usgs[s]["B4"]).shape # GetInfo(usgs[s]["B5"]).shape

\* a test of a mapping of two or more bands, all of whose files open
TestedReadable ==
    /\ prog = "test" /\ report.kind = "test" /\ Len(report.bands) >= 2
    /\ \A i \in 1..Len(report.bands) : Readable(FileOf(report.bands[i]))

\* C11: the alignment check does not raise when the files open, whether the
\* bands are aligned or not, and it reports for every band other than the
\* reference, aligned ones included, the largest difference of its bounds
\* from the reference's.
C11_CheckEnumeratesEveryBand ==
    TestedReadable =>
        /\ ~report.raised
        /\ \A i \in 2..Len(report.bands) :
               report.bands[i].label \in DOMAIN report.check.diff

\* the index rasters the running program has written, each with the red and
\* the NIR file it was computed from
IndexWritten ==
    IF prog = "alignedNdvi"
    THEN {[index |-> ndviAligned[s], red |-> alignedDir[s]["B4"],
           nir |-> alignedDir[s]["B5"]] : s \in Said("ndvi saved")}
    ELSE IF prog = "ndvi"
    THEN {[index |-> ndviNum[k], red |-> DataSource(useAligned)[out[k].scene]["B4"],
           nir |-> DataSource(useAligned)[out[k].scene]["B5"]] : k \in 1..Len(out)}
    ELSE {}

\* red and NIR files of one shape, pixel for pixel
SameShape(a, b) == a.exists /\ b.exists /\ a.h = b.h /\ a.w = b.w

\* C12: for red and NIR inputs on one grid, every index raster written by
\* process_aligned_ndvi and by src/src/vegetation-ortho.py holds
\* (NIR - red) / (NIR + red) at every pixel where NIR + red is not zero.
C12_IndexIsNormalisedDifference ==
    \A e \in IndexWritten :
        SameShape(e.red, e.nir) =>
            \A r \in 1..e.red.h, c \in 1..e.red.w :
                LET red == e.red.data[r][c]
                    nir == e.nir.data[r][c]
                IN  nir + red # 0 => e.index.data[r][c] = Frac(nir - red, nir + red)

\* C12's case: red 100 and NIR 300 at every pixel gave 0.5 at every pixel
C12_Witness ==
    /\ prog = "alignedNdvi"
    /\ 1 \in Said("ndvi saved")
    /\ \A r \in 1..MaxDim, c \in 1..MaxDim :
           /\ alignedDir[1]["B4"].data[r][c] = 100
           /\ alignedDir[1]["B5"].data[r][c] = 300
           /\ ndviAligned[1].data[r][c] = <<1, 2>>

\* C13: check, check_crs, check_raw_bounds and check_alignment take the first
\* band of the mapping, in insertion order, as the reference: what they
\* report about any other band is its comparison with that first band, and
\* the first band itself is never reported.
C13_FirstBandIsReference ==
    Tested =>
        LET first == report.bands[1].label
            ref == FileOf(report.bands[1])
            Differs(f) == \/ GetInfo(f).bounds_wgs84 # GetInfo(ref).bounds_wgs84
                          \/ GetInfo(f).shape # GetInfo(ref).shape
        IN  /\ first \notin report.check.misaligned \cup report.check.shape_line
            /\ first \notin DOMAIN report.check.diff
            /\ first \notin report.crs_different
            /\ first \notin DOMAIN report.raw_diff
            /\ report.is_aligned <=>
                   \A i \in 2..Len(report.bands) : ~Differs(FileOf(report.bands[i]))
            /\ \A i \in 2..Len(report.bands) :
                   LET label == report.bands[i].label
                       f == FileOf(report.bands[i])
                   IN  /\ label \in report.check.misaligned <=> Differs(f)
                       /\ label \in report.check.misaligned =>
                              report.check.diff[label] =
                                  MaxDiff(GetInfo(ref).bounds_wgs84, GetInfo(f).bounds_wgs84)
                       /\ label \in report.check.shape_line <=>
                              GetInfo(f).shape # GetInfo(ref).shape
                       /\ label \in report.crs_different <=>
                              GetInfo(f).crs # GetInfo(ref).crs
                       /\ report.raw_diff[label] = MaxDiff(RawBounds(f), RawBounds(ref))

\* C13's case: a mapping whose first band is B5, so that the reference is
\* not the band of the lowest number, and B4 reported as differing from it
C13_Witness ==
    /\ Tested
    /\ report.bands[1].label = "B5"
    /\ report.check.misaligned = {"B4"}
    /\ report.crs_different = {"B4"}
    /\ DOMAIN report.raw_diff = {"B4"}

\* positions of the trace where a handle on path p is opened or closed
Opens(mode, p) == {k \in 1..Len(io) : io[k] = Ev("open", mode, p)}
Closes(mode, p) == {k \in 1..Len(io) : io[k] = Ev("close", mode, p)}

\* positions where an aligned band file is opened for reading
AlignedReads == {k \in 1..Len(io) : io[k].op = "open" /\ io[k].mode = "r"
                                       /\ io[k].path.dir = "aligned"}

\* C14: an operation opens an aligned band file for reading only after its
\* own write of that file is closed, and process_aligned_ndvi has written
\* and closed both aligned files of the scene before it opens either.
C14_AlignedReadAfterWriteClosed ==
    \A k \in AlignedReads :
        /\ \A i \in Opens("w", io[k].path) :
               \E c \in Closes("w", io[k].path) : i < c /\ c < k
        /\ prog = "alignedNdvi" =>
               \A b \in Bands :
                   \E i \in Opens("w", PathOf("aligned", io[k].path.scene, b)) :
                       \E c \in Closes("w", PathOf("aligned", io[k].path.scene, b)) :
                           i < c /\ c < k

\* C14's case: process_aligned_ndvi saved the index of a scene, having read
\* both aligned files it wrote in that iteration
C14_Witness ==
    /\ prog = "alignedNdvi"
    /\ Len(out) > 0 /\ out[Len(out)].text = "ndvi saved"
    /\ \A b \in Bands :
           /\ Opens("w", PathOf("aligned", out[Len(out)].scene, b)) # {}
           /\ Opens("r", PathOf("aligned", out[Len(out)].scene, b)) # {}

\* C15: every handle an operation opens is closed when the operation is
\* left, by return or by exception: each trace closes what it opens, most
\* recent first, and no handle is left open.
C15_HandlesClosedOnEveryExit ==
    /\ handles = 0
    /\ OpenAfter(io) = 0
    /\ \A k \in 1..Len(io) :
           io[k].op = "open" =>
               \E c \in (k + 1)..Len(io) :
                   /\ io[c] = Ev("close", io[k].mode, io[k].path)
                   /\ OpenAfter(SubSeq(io, k, c)) = 0

\* C15's case: align_scene raised while two handles were open, the reference
\* and the band whose pixels could not be read, and both were closed
C15_Witness ==
    /\ prog = "aligner"
    /\ Len(out) > 0 /\ out[Len(out)].text = "error aligning scene"
    /\ \E k \in 1..Len(io) :
           /\ k + 3 <= Len(io)
           /\ io[k].op = "open" /\ io[k + 1].op = "open"
           /\ io[k + 2].op = "close" /\ io[k + 3].op = "close"
           /\ io[k].mode = "r" /\ io[k + 1].mode = "r"
    /\ handles = 0

\* the scene the running batch program processed last
LastScene == visited[Len(visited)]

\* the files an operation wrote
WritePaths(events) ==
    {events[k].path : k \in {i \in 1..Len(events) : events[i].mode = "w"}}

\* what the index script's loop body reads and writes for a scene processed
\* on its own, by a worker that starts the script for that scene only: the
\* counter j has its initial value
AloneIO(s) ==
    IF prog = "ndvi"
    THEN IndexIO(PathOf(SourceName(useAligned), s, "B4"), DataSource(useAligned)[s]["B4"],
                 PathOf(SourceName(useAligned), s, "B5"), DataSource(useAligned)[s]["B5"],
                 ScriptIndex(DataSource(useAligned)[s]["B4"],
                             DataSource(useAligned)[s]["B5"]).raised, 1)
    ELSE IndexIO(PathOf("tree", s, "B4"), tree[s]["B4"],
                 PathOf("tree", s, "B5"), tree[s]["B5"],
                 RootIndex(tree[s]["B4"], tree[s]["B5"]).raised, 1)

\* C16: the processing of one scene touches only files named for that scene,
\* and the files it writes are those its processing alone writes: no output
\* path depends on a counter or on the scenes processed before, so that
\* scenes processed by one worker each give the files of the sequential run.
C16_SceneOutputsIndependent ==
    (prog \in BatchProgs /\ visited # <<>>) =>
        /\ \A k \in 1..Len(io) :
               io[k].path.dir \in {"usgs", "aligned", "tree"} \/ io[k].path.name = "ndvi_aligned"
                   => io[k].path.scene = LastScene
        /\ prog \in {"ndvi", "ndviRoot"} =>
               WritePaths(io) = WritePaths(AloneIO(LastScene).events)

\* C17: discovery assigns every band file of the data directory to the scene
\* of its prefix under its band label; every discovered scene has a band,
\* and each of its labels names one file of that scene and band that exists.
C17_DiscoveryGroupsByPrefix ==
    prog = "aligner" =>
        /\ \A s \in Scenes, b \in Bands :
               usgs[s][b].exists => s \in DOMAIN scenes /\ HasBand(scenes[s], b)
        /\ \A s \in DOMAIN scenes :
               /\ Len(scenes[s]) >= 1
               /\ \A i \in 1..Len(scenes[s]) : usgs[s][scenes[s][i]].exists
               /\ \A i, k \in 1..Len(scenes[s]) : i # k => scenes[s][i] # scenes[s][k]

\* C18: for every mapping of two or more bands, check_alignment returns True
\* exactly when check reports no band as spatially misaligned, and then
\* check prints that all bands are aligned.
C18_CheckAlignmentAgreesWithCheck ==
    Tested =>
        /\ report.is_aligned <=> report.check.misaligned = {}
        /\ report.is_aligned <=> report.check.all_aligned

\* C18's case: a band with the bounds of the reference and another shape,
\* which both operations report as not aligned
C18_Witness ==
    /\ Tested
    /\ ~report.is_aligned
    /\ report.check.misaligned = {report.bands[2].label}
    /\ report.check.shape_line = {report.bands[2].label}
    /\ report.check.diff[report.bands[2].label] = 0

\* the labels of a sequence of labels
LabelsOf(keys) == {keys[i] : i \in 1..Len(keys)}

\* a call of align_scene whose scene is unknown or lacks the reference band
CalledInVain ==
    \/ report.scene \notin DOMAIN scenes
    \/ ~HasBand(scenes[report.scene], report.reference_band)

\* C19: align_scene called with a scene that was not discovered, or with a
\* reference label the scene lacks, writes no file, leaves self.scenes as it
\* was, raises nothing and returns None; otherwise, when it returns, it
\* returns a mapping whose keys are the scene's band labels, each file
\* <scene>_<label>_aligned.TIF written to the output directory.
C19_AlignSceneFrame ==
    (prog = "alignScene" /\ report.kind = "call") =>
        IF CalledInVain
        THEN /\ ~report.raised
             /\ report.ret.none
             /\ alignedDir = report.dir_before
             /\ scenes = report.scenes_before
             /\ io = <<>>
        ELSE ~report.raised =>
                 /\ ~report.ret.none
                 /\ Len(report.ret.keys) = Cardinality(LabelsOf(report.ret.keys))
                 /\ LabelsOf(report.ret.keys) = LabelsOf(scenes[report.scene])
                 /\ \A b \in LabelsOf(report.ret.keys) :
                        /\ alignedDir[report.scene][b].exists
                        /\ PathOf("aligned", report.scene, b) \in WritePaths(io)

\* C19's case: the scene was discovered with its B4 only and align_scene was
\* called with B5 as the reference
C19_Witness ==
    /\ prog = "alignScene" /\ report.kind = "call"
    /\ report.scene \in DOMAIN scenes
    /\ report.reference_band = "B5"
    /\ ~HasBand(scenes[report.scene], "B5")
    /\ report.ret.none

\* positions of the trace where a band file is opened for reading
BandReads == {k \in 1..Len(io) : io[k].op = "open" /\ io[k].mode = "r"}

\* C20: src/src/vegetation-ortho.py reads in one run either aligned files
\* only or original files only: the mode is the one chosen from the aligned
\* directory before the loop, and the red and the NIR file of every
\* iteration are the B4 and the B5 file of one scene in the directory of
\* that mode.
C20_NeverMixesAlignedAndOriginal ==
    prog = "ndvi" =>
        /\ useAligned = AnyAligned
        /\ \A k \in BandReads :
               /\ io[k].path.dir = SourceName(useAligned)
               /\ io[k].path.scene = LastScene
        /\ \A k, l \in BandReads : k < l =>
               io[k].path.name = "B4" /\ io[l].path.name = "B5"

\* C20's case: the aligned directory holds files, the script chose the
\* aligned mode and read the aligned red and NIR files of a scene while the
\* original files of the scene were there too
C20_Witness ==
    /\ prog = "ndvi" /\ useAligned
    /\ visited # <<>>
    /\ Cardinality(BandReads) = 2
    /\ usgs[LastScene]["B4"].exists /\ usgs[LastScene]["B5"].exists
    /\ \A k \in BandReads : io[k].path.dir = "aligned"

\* a run of main() that returned
MainReturned == prog = "main" /\ status = "finished" /\ report.kind = "main"

\* C21: after main() ran run_all_tests over k discovered scene groups and then
\* generate_report, the report's total is k and aligned + misaligned is the
\* total; generate_report on an empty results list writes no report file and
\* divides by nothing.
C21_ReportReflectsTestedScenes ==
    /\ MainReturned =>
         /\ report.summary.total_scenes = report.groups
         /\ report.summary.aligned_scenes + report.summary.misaligned_scenes
                = report.summary.total_scenes
         /\ report.groups > 0 => report.summary.written
    /\ (report.kind \in {"main", "summary"} /\ ~report.raised /\ report.results = <<>>) =>
         ~report.summary.written /\ ~report.summary.divided

====
